---------------------------- MODULE Spec2Model ----------------------------
(***************************************************************************)
(* Task orchestration of the OpenQuake engine calculators.                 *)
(*                                                                         *)
(* Part I models CalculatorNext.execute (calculators/base.py): the control *)
(* node fills the celery queue with concurrent_tasks initial tasks, then   *)
(* drains the job's AMQP signal queue, the task-complete callback adding   *)
(* the reported number of items to progress['computed'] and queueing the   *)
(* next block, until computed reaches total.                               *)
(*                                                                         *)
(* Part II models ConditionalSpectrumCalculator.execute                    *)
(* (calculators/conditional_spectrum.py): the ruptures are split in blocks *)
(* of bounded weight and constant grp_id, one task is submitted to the     *)
(* Starmap for each block and execute returns what smap.reduce() returns.  *)
(*                                                                         *)
(* Part III applies the block splitter to sequences of weighted, keyed     *)
(* items.                                                                  *)
(*                                                                         *)
(* Part IV models run_preclassical (calculators/preclassical.py), Part V   *)
(* signal_task_complete (calculators/base.py) and Part VI the submission   *)
(* loop of PostRiskCalculator.execute (calculators/post_risk.py).          *)
(***************************************************************************)
EXTENDS Integers, Sequences, FiniteSets, TLC

\* ------------------------------------------------------------------ bounds
MaxBlocks == 3        \* blocks yielded by task_arg_gen
MaxItems == 2         \* work items in one block
MaxConcurrent == 3    \* value of the concurrent_tasks parameter
MaxJob == 1           \* job identifiers
MaxDup == 1           \* redeliveries of a completion signal by the broker
MaxRups == 3          \* ruptures read from the datastore (totrups)
MaxGrp == 2           \* source groups
MaxSites == 1         \* sites affected by one rupture (its weight)
MaxSplitLen == 4      \* items given to the block splitter
MaxItemWeight == 2    \* weight of one item given to the block splitter
MaxBlockWeight == 4   \* max_weight given to the block splitter
MaxUniform == 10      \* items of one weight and one key given to the splitter
MaxSrc == 3           \* non-atomic sources of the composite source model
MaxParts == 2         \* sources that split_source makes of one source
MaxOther == 1         \* completion signals of the tasks of another job
MaxArg == 3           \* value of a keyword argument of signal_task_complete
MaxCurves == 3        \* num_curves = (K + 1) * R * L of post_risk

VARIABLES
    job_id,            \* self.job.id
    concurrent_tasks,  \* int(config.get('hazard', 'concurrent_tasks'))
    blocks,            \* item count of each block task_arg_gen will yield
    task_gen,          \* position of the generator: blocks already yielded
    i,                 \* iterations of the initial-fill loop already done
    pc,                \* position of the control node in execute
    computed,          \* self.progress['computed']
    total,             \* self.progress['total']
    submitted,         \* blocks passed to queue_next, in call order
    running,           \* tasks handed to celery and not yet finished
    failed,            \* tasks whose work function raised
    queue,             \* messages waiting in the job's task signal queue
    consumed,          \* messages the callback has handled, in order
    dups,              \* redeliveries made so far
    rdata,             \* the ruptures: records of grp_id, nsites, idx
    cs_pc,             \* position of ConditionalSpectrumCalculator.execute
    Ta,                \* blocks of the splitter already looped over
    tasks,             \* arguments of the tasks submitted to the Starmap
    sent,              \* Starmap tasks not yet finished
    done,              \* outcomes of finished tasks, in completion order
    raised,            \* Starmap tasks whose work function raised
    acc,               \* the accumulator of smap.reduce()
    result,            \* what execute returned to its caller
    error,             \* the exception execute raised
    bs_items,          \* block_splitter: the items
    bs_max,            \* block_splitter: max_weight
    bs_pc,             \* block_splitter: called, yielded or raised
    bs_out,            \* block_splitter: the blocks yielded
    normal_sources,    \* csm.get_sources(atomic=False)
    atomic_sources,    \* csm.get_sources(atomic=True)
    ps_grid_spacing,   \* oqparam.ps_grid_spacing is set
    pre_pc,            \* position of run_preclassical
    allargs,           \* the arguments of the preclassical tasks
    pre_sent,          \* preclassical tasks not yet finished
    normal,            \* the accumulator of Starmap(preclassical).reduce()
    res,               \* res = atomic + normal
    before_after,      \* the values read as res['before'], res['after']
    calc_times,        \* zero_times(csm.get_sources())
    declared,          \* the job's task signal queue exists on the broker
    consuming,         \* the consumer with the callback is registered
    other_queue,       \* the task signal queue of another running job
    sig_kwargs,        \* signal_task_complete: the keyword arguments
    sig_pc,            \* signal_task_complete: position in the function
    sig_conn,          \* signal_task_complete: broker connections opened
    sig_published,     \* signal_task_complete: messages published
    num_curves,        \* post_risk: (K + 1) * self.R * self.L
    pr_n,              \* post_risk: entries the loops over gb yield
    pr_j,              \* post_risk: entries already appended
    pr_pc,             \* post_risk: position in execute
    krl_losses,        \* post_risk: the buffer of entries
    pr_inproc,        \* post_risk: Starmap runs the tasks in process
    pr_args,           \* post_risk: the buffer as it was at each submit
    pr_recv            \* post_risk: the entries each task has processed

calcvars == <<job_id, blocks, task_gen, i, pc, computed, total,
              submitted, running, failed, queue, consumed, dups>>

smapvars ==
    <<rdata, cs_pc, Ta, tasks, sent, done, raised, acc, result, error>>

splitvars == <<bs_items, bs_max, bs_pc, bs_out>>

prevars == <<normal_sources, atomic_sources, ps_grid_spacing, pre_pc,
             allargs, pre_sent, normal, res, before_after, calc_times>>

chanvars == <<declared, consuming, other_queue>>

sigvars == <<sig_kwargs, sig_pc, sig_conn, sig_published>>

prvars == <<num_curves, pr_n, pr_j, pr_pc, krl_losses, pr_inproc, pr_args,
            pr_recv>>

\* what the actions of one part leave alone
notchan == <<smapvars, splitvars, prevars, sigvars, prvars>>

notcalc == <<notchan, chanvars>>

notsmap == <<calcvars, splitvars, prevars, chanvars, sigvars, prvars>>

notsplit == <<calcvars, smapvars, prevars, chanvars, sigvars, prvars>>

notpre == <<calcvars, smapvars, splitvars, chanvars, sigvars, prvars>>

notsig == <<calcvars, smapvars, splitvars, prevars, chanvars, prvars>>

notpr == <<calcvars, smapvars, splitvars, prevars, chanvars, sigvars>>

vars == <<concurrent_tasks, calcvars, smapvars, splitvars, prevars, chanvars,
          sigvars, prvars>>

\* ----------------------------------------------------------------- helpers
RECURSIVE SumSeq(_)
SumSeq(s) == IF s = <<>> THEN 0 ELSE Head(s) + SumSeq(Tail(s))

Range(s) == {s[k] : k \in 1..Len(s)}

SeqsUpTo(S, n) == UNION {[1..m -> S] : m \in 0..n}

NoResult == [none |-> "result"]

NoError == [none |-> "error"]

\* CalculatorNext is not in use
IdleCalc ==
    /\ job_id = 0
    /\ blocks = <<>>
    /\ task_gen = 0
    /\ i = 0
    /\ pc = "idle"
    /\ computed = 0
    /\ total = 0
    /\ submitted = <<>>
    /\ running = {}
    /\ failed = {}
    /\ queue = <<>>
    /\ consumed = <<>>
    /\ dups = 0
    /\ declared = FALSE
    /\ consuming = FALSE
    /\ other_queue = <<>>

\* the conditional spectrum calculator is not in use
IdleSmap ==
    /\ rdata = <<>>
    /\ cs_pc = "idle"
    /\ Ta = 0
    /\ tasks = <<>>
    /\ sent = {}
    /\ done = <<>>
    /\ raised = {}
    /\ acc = <<>>
    /\ result = [none |-> "result"]
    /\ error = [none |-> "error"]

\* run_preclassical is not in use
IdlePre ==
    /\ normal_sources = <<>>
    /\ atomic_sources = <<>>
    /\ ps_grid_spacing = FALSE
    /\ pre_pc = "idle"
    /\ allargs = <<>>
    /\ pre_sent = {}
    /\ normal = <<>>
    /\ res = <<>>
    /\ before_after = <<>>
    /\ calc_times = <<>>

\* the block splitter is not being called on its own
IdleSplit ==
    /\ bs_items = <<>>
    /\ bs_max = 0
    /\ bs_pc = "idle"
    /\ bs_out = <<>>

\* signal_task_complete is not being called on its own
IdleSignal ==
    /\ sig_kwargs = <<>>
    /\ sig_pc = "idle"
    /\ sig_conn = 0
    /\ sig_published = <<>>

\* the post_risk calculator is not in use
IdlePostRisk ==
    /\ num_curves = 0
    /\ pr_n = 0
    /\ pr_j = 0
    /\ pr_pc = "idle"
    /\ krl_losses = <<>>
    /\ pr_inproc = TRUE
    /\ pr_args = <<>>
    /\ pr_recv = <<>>

\* (as a mutation: a routing key that does not hold the job id)
ROUTING_KEY_FMT_NoJob(j) == <<"oq.job", 0, "tasks">>

\* ROUTING_KEY_FMT % dict(job_id=j)
ROUTING_KEY_FMT(j) == <<"oq.job", j, "tasks">>

\* the binding of the queue the control node declares for its job
task_signal_queue == ROUTING_KEY_FMT(job_id)

\* task_arg_gen(block_size): the finite sequences of non-empty blocks the
\* generator may yield, each block given by its number of items
task_arg_gen == SeqsUpTo(1..MaxItems, MaxBlocks)

\* progress['total'] as set before execute: the number of work items
progress_total == SumSeq(blocks)

\* the generator still has a block to yield
\* (as a mutation: the last block is never yielded)
HasNext_OneShort == task_gen + 1 < Len(blocks)

HasNext == task_gen < Len(blocks)

\* ------------------------------------------------------------- operations
\* queue_next(task_func, task_args): task_func.apply_async(task_args)
\* (as a mutation: the task is sent twice)
queue_next_Twice(b) ==
    /\ submitted' = Append(Append(submitted, b), b)
    /\ running' = running \cup {b}

queue_next(b) ==
    /\ submitted' = Append(submitted, b)
    /\ running' = running \cup {b}

\* task_gen.next(): the block the generator yields next
\* (as a mutation: the block yielded last is yielded again)
NextBlock_Repeat == IF task_gen = 0 THEN task_gen + 1 ELSE task_gen

NextBlock == task_gen + 1

\* the bound of the initial-fill loop, for _ in xrange(concurrent_tasks)
\* (as a mutation: one iteration too many)
FillGuard_OffByOne == i <= concurrent_tasks

\* (as a mutation: one iteration too few)
FillGuard_OneShort == i + 1 < concurrent_tasks

FillGuard == i < concurrent_tasks

\* the test of the wait loop
\* (as mutations: the loop left one item early, and not left at the total)
LoopCond_Early == computed + 1 < total

LoopCond_Late == computed <= total

LoopCond == computed < total

\* signal_task_complete(**kwargs): one message with the kwargs as body is
\* published with the routing key built from kwargs['job_id']; the direct
\* exchange delivers it to the queue bound with that key, if the queue
\* exists, and drops it otherwise.
signal_task_complete(q, msg) ==
    IF declared /\ ROUTING_KEY_FMT(msg.job_id) = task_signal_queue
    THEN Append(q, msg) ELSE q

\* the statements of execute inside `with kombu.BrokerConnection`, in the
\* order of the code: the queue is declared, the consumer is entered, the
\* initial tasks are queued, the completion signals are waited for
\* (as a mutation: the initial tasks are queued first)
ExecuteSteps_FillFirst == <<"fill", "declare", "consume", "wait">>

ExecuteSteps == <<"declare", "consume", "fill", "wait">>

\* the statement that follows statement p
StepAfter(p) ==
    ExecuteSteps[(CHOOSE k \in 1..Len(ExecuteSteps) : ExecuteSteps[k] = p) + 1]

Init ==
    /\ job_id \in 1..MaxJob
    /\ concurrent_tasks \in 0..MaxConcurrent
    /\ blocks \in task_arg_gen
    /\ task_gen = 0
    /\ i = 0
    /\ pc = ExecuteSteps[1]
    /\ computed = 0
    /\ total = progress_total
    /\ submitted = <<>>
    /\ running = {}
    /\ failed = {}
    /\ queue = <<>>
    /\ consumed = <<>>
    /\ dups = 0
    /\ declared = FALSE
    /\ consuming = FALSE
    /\ other_queue = <<>>
    /\ rdata = <<>>
    /\ cs_pc = "idle"
    /\ Ta = 0
    /\ tasks = <<>>
    /\ sent = {}
    /\ done = <<>>
    /\ raised = {}
    /\ acc = <<>>
    /\ result = NoResult
    /\ error = NoError
    /\ IdleSplit
    /\ IdlePre
    /\ IdleSignal
    /\ IdlePostRisk

\* task_signal_queue(conn.channel()).declare()
Declare ==
    /\ pc = "declare"
    /\ declared' = TRUE
    /\ pc' = StepAfter("declare")
    /\ UNCHANGED <<job_id, concurrent_tasks, blocks, task_gen, i, computed,
                   total, submitted, running, failed, queue, consumed, dups,
                   notchan, consuming, other_queue>>

\* with conn.Consumer(task_signal_queue, callbacks=[...])
Consume ==
    /\ pc = "consume"
    /\ consuming' = TRUE
    /\ pc' = StepAfter("consume")
    /\ UNCHANGED <<job_id, concurrent_tasks, blocks, task_gen, i, computed,
                   total, submitted, running, failed, queue, consumed, dups,
                   notchan, declared, other_queue>>

\* First: queue up the initial tasks (one iteration of the for loop).
FillStep ==
    /\ pc = "fill"
    /\ FillGuard
    /\ HasNext
    /\ queue_next(NextBlock)
    /\ task_gen' = task_gen + 1
    /\ i' = i + 1
    /\ UNCHANGED <<job_id, concurrent_tasks, blocks, pc, computed, total,
                   failed, queue, consumed, dups, notcalc>>

\* The for loop ends: xrange is exhausted, or task_gen.next() raised
\* StopIteration and the loop breaks.
FillEnd ==
    /\ pc = "fill"
    /\ (~FillGuard \/ ~HasNext)
    /\ pc' = StepAfter("fill")
    /\ UNCHANGED <<job_id, concurrent_tasks, blocks, task_gen, i, computed,
                   total, submitted, running, failed, queue, consumed, dups,
                   notcalc>>

\* the amount of work a completion signal reports
\* (as a mutation: every signal counts for one item)
amount_One(msg) == 1

amount(msg) == msg.num_items

\* The task-complete callback registered on the consumer.
task_complete_callback(msg) ==
    /\ computed' = computed + amount(msg)
    /\ IF HasNext
       THEN /\ queue_next(NextBlock)
            /\ task_gen' = task_gen + 1
       ELSE UNCHANGED <<submitted, running, task_gen>>
    /\ consumed' = Append(consumed, msg)

\* while computed < total: conn.drain_events()
DrainEvents ==
    /\ pc = "wait"
    /\ LoopCond
    /\ consuming
    /\ queue /= <<>>
    /\ task_complete_callback(Head(queue))
    /\ queue' = Tail(queue)
    /\ UNCHANGED <<job_id, concurrent_tasks, blocks, i, pc, total, failed,
                   dups, notcalc>>

\* the wait loop is left and execute logs "calculation 100% complete"
LoopExit ==
    /\ pc = "wait"
    /\ ~LoopCond
    /\ pc' = "done"
    /\ UNCHANGED <<job_id, concurrent_tasks, blocks, task_gen, i, computed,
                   total, submitted, running, failed, queue, consumed, dups,
                   notcalc>>

\* A worker finishes the task of block b and signals its item count. The
\* body of the message is job_id and num_items; blk only records, for the
\* properties below, which task sent it.
TaskComplete(b) ==
    /\ b \in running
    /\ running' = running \ {b}
    /\ queue' = signal_task_complete(
           queue, [job_id |-> job_id, num_items |-> blocks[b], blk |-> b])
    /\ UNCHANGED <<job_id, concurrent_tasks, blocks, task_gen, i, pc,
                   computed, total, submitted, failed, consumed, dups,
                   notcalc>>

Workers == \E b \in 1..MaxBlocks : TaskComplete(b)

\* The work function of the task of block b raises: the task ends without
\* calling signal_task_complete.
TaskFail(b) ==
    /\ b \in running
    /\ running' = running \ {b}
    /\ failed' = failed \cup {b}
    /\ UNCHANGED <<job_id, concurrent_tasks, blocks, task_gen, i, pc,
                   computed, total, submitted, queue, consumed, dups,
                   notcalc>>

Failures == \E b \in 1..MaxBlocks : TaskFail(b)

\* The broker delivers a completion signal a second time (delivery is
\* at-least-once): a copy of a waiting message joins the queue.
DuplicateSignal ==
    /\ pc /= "done"
    /\ dups < MaxDup
    /\ \E k \in 1..Len(queue) : queue' = Append(queue, queue[k])
    /\ dups' = dups + 1
    /\ UNCHANGED <<job_id, concurrent_tasks, blocks, task_gen, i, pc,
                   computed, total, submitted, running, failed, consumed,
                   notcalc>>

Next ==
    \/ Declare
    \/ Consume
    \/ FillStep
    \/ FillEnd
    \/ DrainEvents
    \/ LoopExit
    \/ Workers

\* every task finishes and its signal is delivered exactly once
Spec == Init /\ [][Next]_vars

\* the same, the control node and every worker being scheduled
Fairness ==
    /\ WF_vars(Declare)
    /\ WF_vars(Consume)
    /\ WF_vars(FillStep)
    /\ WF_vars(FillEnd)
    /\ WF_vars(DrainEvents)
    /\ WF_vars(LoopExit)
    /\ \A b \in 1..MaxBlocks : WF_vars(TaskComplete(b))

FairSpec == Init /\ [][Next]_vars /\ Fairness

\* signals may be delivered more than once
NextDup == Next \/ DuplicateSignal

SpecDup == Init /\ [][NextDup]_vars

\* tasks may fail
NextFail == Next \/ Failures

SpecFail == Init /\ [][NextFail]_vars

\* another job runs at the same time, with the next job id, and its control
\* node has declared its own queue, bound with the routing key of that job
other_job == job_id + 1

\* the direct exchange: a message reaches the queue q if its routing key is
\* the one q was bound with
Route(q, binding, msg) ==
    IF ROUTING_KEY_FMT(msg.job_id) = binding THEN Append(q, msg) ELSE q

\* A worker finishes the task of block b of this job while the other job
\* runs: the exchange routes its signal to the queues of both jobs.
TaskCompleteJobs(b) ==
    /\ b \in running
    /\ running' = running \ {b}
    /\ LET msg == [job_id |-> job_id, num_items |-> blocks[b], blk |-> b]
       IN  /\ queue' = signal_task_complete(queue, msg)
           /\ other_queue' = Route(other_queue, ROUTING_KEY_FMT(other_job), msg)
    /\ UNCHANGED <<job_id, concurrent_tasks, blocks, task_gen, i, pc,
                   computed, total, submitted, failed, consumed, dups,
                   notchan, declared, consuming>>

WorkersJobs == \E b \in 1..MaxBlocks : TaskCompleteJobs(b)

\* A task of the other job signals that it has computed n items.
OtherTaskComplete(n) ==
    /\ Len(other_queue) < MaxOther
    /\ LET msg == [job_id |-> other_job, num_items |-> n, blk |-> 0]
       IN  /\ queue' = signal_task_complete(queue, msg)
           /\ other_queue' = Route(other_queue, ROUTING_KEY_FMT(other_job), msg)
    /\ UNCHANGED <<job_id, concurrent_tasks, blocks, task_gen, i, pc,
                   computed, total, submitted, running, failed, consumed,
                   dups, notchan, declared, consuming>>

OtherWorkers == \E n \in 1..MaxItems : OtherTaskComplete(n)

NextJobs ==
    \/ Declare
    \/ Consume
    \/ FillStep
    \/ FillEnd
    \/ DrainEvents
    \/ LoopExit
    \/ WorkersJobs
    \/ OtherWorkers

\* two jobs run at the same time
SpecJobs == Init /\ [][NextJobs]_vars

\* ------------------------------------------------- Part II: the Starmap
Min(a, b) == IF a <= b THEN a ELSE b

\* numpy.ceil(a / b) for a >= 0 and b > 0
Ceil(a, b) == (a + b - 1) \div b

\* each grp_id occupies one chunk of consecutive ruptures
IsChunked(s) ==
    \A a, c \in 1..Len(s) :
        (a < c /\ s[a].grp_id = s[c].grp_id) =>
            \A b \in a..c : s[b].grp_id = s[a].grp_id

\* the rupture table rdata built from the datastore, idx = arange(totrups)
RuptureTables ==
    {[k \in 1..Len(s) |->
         [grp_id |-> s[k][1], nsites |-> s[k][2], idx |-> k - 1]] :
       s \in SeqsUpTo((1..MaxGrp) \X (1..MaxSites), MaxRups)}

\* totweight = rdata['nsites'].sum()
RECURSIVE Weight(_)
Weight(ws) == IF ws = <<>> THEN 0 ELSE Head(ws).nsites + Weight(Tail(ws))

\* maxw = 2 * 1024**3 / (16 * G * self.M), for G = M = 1
maxw == 134217728

\* maxweight = min(numpy.ceil(totweight / (oq.concurrent_tasks or 1)), maxw)
\* (as a mutation: a floor of 1 on the result)
maxweight_AtLeastOne ==
    LET m == Min(Ceil(Weight(rdata),
                      IF concurrent_tasks = 0 THEN 1 ELSE concurrent_tasks),
                 maxw)
    IN  IF m < 1 THEN 1 ELSE m

maxweight ==
    Min(Ceil(Weight(rdata),
             IF concurrent_tasks = 0 THEN 1 ELSE concurrent_tasks), maxw)

\* the accessors execute passes to the splitter:
\* operator.itemgetter('nsites') and operator.itemgetter('grp_id')
\* (as mutations: the default weight of 1, and no key)
weight_Unit(item) == 1

weight(item) == item.nsites

key_None(item) == 0

key(item) == item.grp_id

\* the weight of the block being filled
\* (as a mutation: the running total of a block counts one too many)
ws_weight_Early(ws) == IF ws = <<>> THEN 0 ELSE Weight(ws) + 1

RECURSIVE ws_weight(_)
ws_weight(ws) ==
    IF ws = <<>> THEN 0 ELSE weight(Head(ws)) + ws_weight(Tail(ws))

\* general.block_splitter(items, max_weight, weight, key): greedy packing in
\* input order; ws is the block being filled, out the blocks already closed.
RECURSIVE split(_, _, _, _)
split(items, max_weight, ws, out) ==
    IF items = <<>>
    THEN IF ws = <<>> THEN out ELSE Append(out, ws)
    ELSE LET item == Head(items) IN
         IF /\ ws /= <<>>
            /\ \/ ws_weight(ws) + weight(item) > max_weight
               \/ key(item) /= key(ws[Len(ws)])
         THEN split(Tail(items), max_weight, <<item>>, Append(out, ws))
         ELSE split(Tail(items), max_weight, Append(ws, item), out)

\* (as a mutation: the block being filled at the end is not yielded)
block_splitter_NoFlush(items, max_weight) ==
    LET r == split(items, max_weight, <<>>, <<>>)
    IN  SubSeq(r, 1, Len(r) - 1)

block_splitter(items, max_weight) == split(items, max_weight, <<>>, <<>>)

\* the blocks the for loop of execute iterates over
\* (as a mutation: the maximum weight grows with the tasks already finished)
Blocks_Adaptive == block_splitter(rdata, maxweight + Len(done))

Blocks == block_splitter(rdata, maxweight)

\* (as a mutation: the slice stops at the index of the last rupture)
TaskArgs_StopAtLast(block) ==
    [start |-> block[1].idx, stop |-> block[Len(block)].idx,
     grp_id |-> block[1].grp_id]

\* slc = slice(block[0]['idx'], block[-1]['idx'] + 1), with the grp_id whose
\* cmaker is passed along
TaskArgs(block) ==
    [start |-> block[1].idx, stop |-> block[Len(block)].idx + 1,
     grp_id |-> block[1].grp_id]

\* the ruptures of rdata that a slice selects
Slice(args) == SubSeq(rdata, args.start + 1, args.stop)

\* conditional_spectrum(dstore, slc, cmaker, imti, imls, monitor) for a
\* cmaker with one gsim: a dictionary with the keys ('_c', g) and ('_s', g),
\* the contributions being stood for by the weight and the number of the
\* ruptures read.
conditional_spectrum(args) ==
    [k \in {<<"_c", args.grp_id>>, <<"_s", args.grp_id>>} |->
        IF k[1] = "_c" THEN Weight(Slice(args)) ELSE Len(Slice(args))]

\* the keys of the dictionaries are pairs: ('_c', g) and ('_s', g) for the
\* conditional spectrum; for preclassical the key grp_id is written
\* <<"grp_id", grp_id>> and the keys 'before' and 'after' <<"before", 0>>
\* and <<"after", 0>>. The values under a grp_id are lists of sources.
IsList(k) == k[1] = "grp_id"

\* (as a mutation: a default that is not the identity of the sum)
Zero_NotIdentity(k) == IF IsList(k) THEN <<>> ELSE 1

\* the identity of + for the values of key k
Zero(k) == IF IsList(k) THEN <<>> ELSE 0

\* x + y for two values of key k: the sum of numbers, and for two lists
\* what + is for python lists, the concatenation
Plus(k, x, y) == IF IsList(k) THEN x \o y ELSE x + y

\* AccumDict: reading a missing key gives the identity of the sum
Get(d, k) == IF k \in DOMAIN d THEN d[k] ELSE Zero(k)

\* (as a mutation: the value of the right operand replaces the one of the
\* left operand)
Merge_Overwrite(a, b) ==
    [k \in (DOMAIN a) \cup (DOMAIN b) |->
        IF k \in DOMAIN b THEN b[k] ELSE a[k]]

\* acc + res of two AccumDicts: the sum, key by key
Merge(a, b) ==
    [k \in (DOMAIN a) \cup (DOMAIN b) |-> Plus(k, Get(a, k), Get(b, k))]

\* the cause with which a work function raises
Causes == {"IOError"}

InitSmap ==
    /\ job_id = 0
    /\ concurrent_tasks \in 0..MaxConcurrent
    /\ blocks = <<>>
    /\ task_gen = 0
    /\ i = 0
    /\ pc = "idle"
    /\ computed = 0
    /\ total = 0
    /\ submitted = <<>>
    /\ running = {}
    /\ failed = {}
    /\ queue = <<>>
    /\ consumed = <<>>
    /\ dups = 0
    /\ declared = FALSE
    /\ consuming = FALSE
    /\ other_queue = <<>>
    /\ rdata \in {t \in RuptureTables : IsChunked(t)}
    /\ cs_pc = "split"
    /\ Ta = 0
    /\ tasks = <<>>
    /\ sent = {}
    /\ done = <<>>
    /\ raised = {}
    /\ acc = <<>>
    /\ result = NoResult
    /\ error = NoError
    /\ IdleSplit
    /\ IdlePre
    /\ IdleSignal
    /\ IdlePostRisk

\* block_splitter rejects a maximum weight that is not positive when its
\* first block is asked for
CS_InvalidWeight ==
    /\ cs_pc = "split"
    /\ maxweight <= 0
    /\ cs_pc' = "raised"
    /\ error' = [type |-> "InvalidConfiguration"]
    /\ UNCHANGED <<concurrent_tasks, notsmap, rdata, Ta, tasks, sent, done,
                   raised, acc, result>>

\* smap.submit((dstore, slc, cmaker, imti, imls)): the task is sent to the
\* pool and the call returns at once
smap_submit(args) ==
    /\ tasks' = Append(tasks, args)
    /\ sent' = sent \cup {Len(tasks) + 1}

\* one iteration of the for loop over the blocks
CS_Submit ==
    /\ cs_pc = "split"
    /\ maxweight > 0
    /\ Ta < Len(Blocks)
    /\ smap_submit(TaskArgs(Blocks[Ta + 1]))
    /\ Ta' = Ta + 1
    /\ UNCHANGED <<concurrent_tasks, notsmap, rdata, cs_pc, done, raised,
                   acc, result, error>>

\* the for loop is over and smap.reduce() is entered
CS_CallReduce ==
    /\ cs_pc = "split"
    /\ maxweight > 0
    /\ Ta = Len(Blocks)
    /\ cs_pc' = "reduce"
    /\ UNCHANGED <<concurrent_tasks, notsmap, rdata, Ta, tasks, sent, done,
                   raised, acc, result, error>>

\* a worker of the pool runs task t to its end
SM_TaskReturns(t) ==
    /\ cs_pc \in {"split", "reduce"}
    /\ t \in sent
    /\ sent' = sent \ {t}
    /\ done' = Append(done, [task |-> t, ok |-> TRUE,
                             res |-> conditional_spectrum(tasks[t])])
    /\ UNCHANGED <<concurrent_tasks, notsmap, rdata, cs_pc, Ta, tasks,
                   raised, acc, result, error>>

\* the work function of task t raises
SM_TaskRaises(t) ==
    /\ cs_pc \in {"split", "reduce"}
    /\ t \in sent
    /\ sent' = sent \ {t}
    /\ \E c \in Causes :
           done' = Append(done, [task |-> t, ok |-> FALSE, cause |-> c])
    /\ raised' = raised \cup {t}
    /\ UNCHANGED <<concurrent_tasks, notsmap, rdata, cs_pc, Ta, tasks, acc,
                   result, error>>

\* reduce() takes the next finished task: its result is added to acc
SM_ReduceMerge ==
    /\ cs_pc = "reduce"
    /\ done /= <<>>
    /\ Head(done).ok
    /\ acc' = Merge(acc, Head(done).res)
    /\ done' = Tail(done)
    /\ UNCHANGED <<concurrent_tasks, notsmap, rdata, cs_pc, Ta, tasks, sent,
                   raised, result, error>>

\* what execute hands to its caller when reduce() raises: nothing, the
\* exception goes through `return smap.reduce()`
\* (as a mutation: the exception is caught and the partial acc returned)
ExecuteOnRaise_ReturnsPartial == acc

ExecuteOnRaise == NoResult

\* reduce() takes the next finished task: it failed, and TaskFailure is
\* raised with the arguments of the task and the cause
SM_ReduceRaise ==
    /\ cs_pc = "reduce"
    /\ done /= <<>>
    /\ ~Head(done).ok
    /\ cs_pc' = "raised"
    /\ error' = [type |-> "TaskFailure", args |-> tasks[Head(done).task],
                 cause |-> Head(done).cause]
    /\ result' = ExecuteOnRaise
    /\ done' = Tail(done)
    /\ UNCHANGED <<concurrent_tasks, notsmap, rdata, Ta, tasks, sent,
                   raised, acc>>

\* (as a mutation: reduce() returns when no finished task is left to take,
\* without waiting for the tasks still running)
AllTasksTaken_NoWait == done = <<>>

\* reduce() has taken the result of every submitted task
AllTasksTaken == sent = {} /\ done = <<>>

\* every task has been merged: reduce() returns acc and execute returns it
CS_Return ==
    /\ cs_pc = "reduce"
    /\ AllTasksTaken
    /\ cs_pc' = "returned"
    /\ result' = acc
    /\ UNCHANGED <<concurrent_tasks, notsmap, rdata, Ta, tasks, sent, done,
                   raised, acc, error>>

SmapWorkers ==
    \E t \in 1..MaxRups : SM_TaskReturns(t) \/ SM_TaskRaises(t)

NextSmap ==
    \/ CS_InvalidWeight
    \/ CS_Submit
    \/ CS_CallReduce
    \/ SmapWorkers
    \/ SM_ReduceMerge
    \/ SM_ReduceRaise
    \/ CS_Return

SpecSmap == InitSmap /\ [][NextSmap]_vars

\* execute up to its call of smap.reduce(): the for loop over the blocks
NextSlices ==
    \/ CS_InvalidWeight
    \/ CS_Submit
    \/ CS_CallReduce

SpecSlices == InitSmap /\ [][NextSlices]_vars

\* ------------------------------------------ Part III: the block splitter
\* sequences of items with a key (grp_id), a weight (nsites) and their
\* position in the input (idx)
ItemSeqs ==
    {[k \in 1..Len(s) |->
         [grp_id |-> s[k][1], nsites |-> s[k][2], idx |-> k - 1]] :
       s \in SeqsUpTo((1..MaxGrp) \X (1..MaxItemWeight), MaxSplitLen)}

InitSplit ==
    /\ concurrent_tasks = 0
    /\ IdleCalc
    /\ IdleSmap
    /\ IdlePre
    /\ IdleSignal
    /\ IdlePostRisk
    /\ bs_items \in ItemSeqs
    /\ bs_max \in (0 - 1)..MaxBlockWeight
    /\ bs_pc = "called"
    /\ bs_out = <<>>

\* a max_weight that is not positive is rejected before a block is yielded
BS_Raise ==
    /\ bs_pc = "called"
    /\ bs_max <= 0
    /\ bs_pc' = "raised"
    /\ UNCHANGED <<concurrent_tasks, notsplit, bs_items, bs_max, bs_out>>

\* the generator is run to its end
BS_Yield ==
    /\ bs_pc = "called"
    /\ bs_max > 0
    /\ bs_out' = block_splitter(bs_items, bs_max)
    /\ bs_pc' = "yielded"
    /\ UNCHANGED <<concurrent_tasks, notsplit, bs_items, bs_max>>

NextSplit == BS_Raise \/ BS_Yield

SpecSplit == InitSplit /\ [][NextSplit]_vars

\* sequences of items that all have the same key and the same weight
UniformSeqs ==
    {[k \in 1..n |-> [grp_id |-> g, nsites |-> w, idx |-> k - 1]] :
        n \in 0..MaxUniform, g \in 1..MaxGrp, w \in 1..MaxItemWeight}

\* the splitter is given a sequence of items of either kind
InitGreedy ==
    /\ concurrent_tasks = 0
    /\ IdleCalc
    /\ IdleSmap
    /\ IdlePre
    /\ IdleSignal
    /\ IdlePostRisk
    /\ bs_items \in ItemSeqs \cup UniformSeqs
    /\ bs_max \in (0 - 1)..MaxBlockWeight
    /\ bs_pc = "called"
    /\ bs_out = <<>>

SpecGreedy == InitGreedy /\ [][NextSplit]_vars

\* ------------------------------------------------ Part IV: preclassical
\* the names of the magnitude-scaling relationships of the sources, in the
\* order of the keys of sources_by_grp
MsrNames == <<"PointMSR", "WC1994">>

\* A source has an id, the group it belongs to, the name of its
\* magnitude-scaling relationship, whether split_source can split it, and
\* the attributes zero_times adds up. The id is a pair: the
\* id of the source in the model and, for a part made by split_source, the
\* number of the part (0 for a source that is not a part).
Source(n, g, s) ==
    [id |-> <<n, 0>>, grp_id |-> g, msr_name |-> MsrNames[1],
     splittable |-> s, num_ruptures |-> 1, nsites |-> 1, weight |-> 1]

\* the lists of non-atomic sources of a composite source model
NormalSources ==
    {[k \in 1..Len(s) |-> Source(k, s[k][1], s[k][2])] :
        s \in SeqsUpTo((1..MaxGrp) \X BOOLEAN, MaxSrc)}

\* the lists of non-atomic sources whose groups hold sources of more than
\* one magnitude-scaling relationship
NormalSourcesByMsr ==
    {[k \in 1..Len(s) |->
         [Source(k, s[k][1], s[k][2]) EXCEPT !.msr_name = MsrNames[s[k][3]]]] :
        s \in SeqsUpTo((1..MaxGrp) \X BOOLEAN \X (1..Len(MsrNames)),
                       MaxSrc)}

\* the lists of atomic sources: none, or the one source of group 0
AtomicSources == {<<>>, <<Source(0, 0, FALSE)>>}

\* basename(src): the id without the number of the part
basename(src) == src.id[1]

\* split_source(src): the parts of a source that can be split, each with
\* its own id, or the source itself
split_source(src) ==
    IF src.splittable
    THEN [j \in 1..MaxParts |->
             [src EXCEPT !.id = <<src.id[1], j>>, !.splittable = FALSE]]
    ELSE <<src>>

InitPre ==
    /\ concurrent_tasks \in 0..MaxConcurrent
    /\ IdleCalc
    /\ IdleSmap
    /\ IdleSplit
    /\ IdleSignal
    /\ IdlePostRisk
    /\ normal_sources \in NormalSources
    /\ atomic_sources \in AtomicSources
    /\ ps_grid_spacing \in BOOLEAN
    /\ pre_pc = "start"
    /\ allargs = <<>>
    /\ pre_sent = {}
    /\ normal = <<>>
    /\ res = <<>>
    /\ before_after = <<>>
    /\ calc_times = <<>>

\* the sources of srcs that belong to group g, in their order
OfGroup(srcs, g) ==
    LET Test(src) == src.grp_id = g IN SelectSeq(srcs, Test)

\* msr_name(src)
msr_name(src) == src.msr_name

\* the key of a source in sources_by_grp
\* (as a mutation: the sources are grouped by grp_id alone)
GroupKey_GrpOnly(src) == <<src.grp_id, MsrNames[1]>>

GroupKey(src) == <<src.grp_id, msr_name(src)>>

\* the sources of srcs that have the given key, in their order
OfKey(srcs, k) ==
    LET Test(src) == GroupKey(src) = k IN SelectSeq(srcs, Test)

\* the keys of sources_by_grp = groupby(normal_sources, ...)
sources_by_grp == {GroupKey(normal_sources[k]) : k \in 1..Len(normal_sources)}

\* the n-th of the keys (grp_id, msr_name) a source can have, in their order
KeyAt(n) ==
    <<((n - 1) \div Len(MsrNames)) + 1,
      MsrNames[((n - 1) % Len(MsrNames)) + 1]>>

\* block_splitter(srcs, maxw) with maxw = nsources / (concurrent_tasks or 1)
\* and the default weight of 1 per source: both sides of the comparison
\* with maxw are multiplied by (concurrent_tasks or 1), which keeps them
\* integers; the blocks are given back as lists of sources.
SourceBlocks(srcs) ==
    LET c == IF concurrent_tasks = 0 THEN 1 ELSE concurrent_tasks
        items == [k \in 1..Len(srcs) |->
                     [grp_id |-> srcs[k].grp_id, nsites |-> c, idx |-> k]]
        blks == block_splitter(items, Len(normal_sources))
    IN  [b \in 1..Len(blks) |->
            [k \in 1..Len(blks[b]) |-> srcs[blks[b][k].idx]]]

\* allargs, for the groups from the n-th key on: one task per group if
\* ps_grid_spacing is set, else one task per block of each group
RECURSIVE AllArgsFrom(_)
AllArgsFrom(n) ==
    IF n > MaxGrp * Len(MsrNames) THEN <<>>
    ELSE (IF KeyAt(n) \notin sources_by_grp THEN <<>>
          ELSE IF ps_grid_spacing THEN <<OfKey(normal_sources, KeyAt(n))>>
          ELSE SourceBlocks(OfKey(normal_sources, KeyAt(n))))
         \o AllArgsFrom(n + 1)

\* distribute=None if len(sources_by_grp) > 1 else 'no'
distribute == IF Cardinality(sources_by_grp) > 1 THEN "None" ELSE "no"

RECURSIVE SplitAll(_)
SplitAll(srcs) ==
    IF srcs = <<>> THEN <<>>
    ELSE split_source(Head(srcs)) \o SplitAll(Tail(srcs))

\* preclassical(srcs, srcfilter, oqparam, monitor) when srcfilter.sitecol
\* is None: the sources are split and counted
preclassical(srcs) ==
    LET split_sources == SplitAll(srcs)
        grp_id == srcs[1].grp_id
    IN  [k \in {<<"grp_id", grp_id>>, <<"before", 0>>, <<"after", 0>>} |->
            IF k[1] = "grp_id" THEN split_sources
            ELSE IF k[1] = "before" THEN Len(srcs)
            ELSE Len(split_sources)]

\* (as a mutation: the atomic sources are left out of the counters)
atomic_NotCounted ==
    IF atomic_sources = <<>> THEN <<>>
    ELSE [k \in {<<"before", 0>>, <<"after", 0>>} \cup
                {<<"grp_id", atomic_sources[j].grp_id>> :
                     j \in 1..Len(atomic_sources)} |->
             IF k[1] = "grp_id" THEN OfGroup(atomic_sources, k[2])
             ELSE 0]

\* atomic = AccumDict({'before': n, 'after': n}) with atomic[grp_id] = srcs
\* for every group of atomic sources, or an empty AccumDict
atomic ==
    IF atomic_sources = <<>> THEN <<>>
    ELSE [k \in {<<"before", 0>>, <<"after", 0>>} \cup
                {<<"grp_id", atomic_sources[j].grp_id>> :
                     j \in 1..Len(atomic_sources)} |->
             IF k[1] = "grp_id" THEN OfGroup(atomic_sources, k[2])
             ELSE Len(atomic_sources)]

\* numpy.zeros(n)
zeros(n) == [j \in 1..n |-> 0]

\* AccumDict(accum=...): reading a missing key gives the accum
GetAccum(d, k, accum) == IF k \in DOMAIN d THEN d[k] ELSE accum

\* the loop of zero_times over the sources left: the row of the source is
\* read from calc_times, which holds it from then on, and updated in place
RECURSIVE zero_times_loop(_, _)
zero_times_loop(sources, times) ==
    IF sources = <<>> THEN times
    ELSE LET src == Head(sources)
             row == GetAccum(times, basename(src), zeros(4))
             upd == [row EXCEPT ![1] = @ + src.num_ruptures,
                                ![2] = @ + src.nsites,
                                ![4] = @ + src.weight]
         IN  zero_times_loop(Tail(sources),
                 [b \in (DOMAIN times) \cup {basename(src)} |->
                     IF b = basename(src) THEN upd ELSE times[b]])

zero_times(sources) == zero_times_loop(sources, <<>>)

\* csm.get_sources() once the groups of res have replaced those of the
\* model: the sources of the groups from g on
RECURSIVE get_sources(_)
get_sources(g) ==
    IF g > MaxGrp THEN <<>>
    ELSE Get(res, <<"grp_id", g>>) \o get_sources(g + 1)

\* Starmap(preclassical, allargs, ...): a task is made of every element of
\* allargs, and reduce() is entered
PRE_Starmap ==
    /\ pre_pc = "start"
    /\ allargs' = AllArgsFrom(1)
    /\ pre_sent' = 1..Len(allargs')
    /\ pre_pc' = "reduce"
    /\ UNCHANGED <<concurrent_tasks, notpre, normal_sources, atomic_sources,
                   ps_grid_spacing, normal, res, before_after, calc_times>>

\* a task may finish when it runs in a pool, or when it is the next one
\* of the tasks run one after the other in the calling process
MayFinish(t) ==
    distribute = "no" => \A u \in pre_sent : t <= u

\* task t finishes and reduce() adds its result to the accumulator
PRE_TaskDone(t) ==
    /\ pre_pc = "reduce"
    /\ t \in pre_sent
    /\ MayFinish(t)
    /\ normal' = Merge(normal, preclassical(allargs[t]))
    /\ pre_sent' = pre_sent \ {t}
    /\ UNCHANGED <<concurrent_tasks, notpre, normal_sources, atomic_sources,
                   ps_grid_spacing, pre_pc, allargs, res, before_after,
                   calc_times>>

\* reduce() returns and res = atomic + normal
PRE_Add ==
    /\ pre_pc = "reduce"
    /\ pre_sent = {}
    /\ res' = Merge(atomic, normal)
    /\ pre_pc' = "added"
    /\ UNCHANGED <<concurrent_tasks, notpre, normal_sources, atomic_sources,
                   ps_grid_spacing, allargs, pre_sent, normal, before_after,
                   calc_times>>

\* if res['before'] != res['after']
PRE_ReadCounters ==
    /\ pre_pc = "added"
    /\ before_after' = <<Get(res, <<"before", 0>>), Get(res, <<"after", 0>>)>>
    /\ pre_pc' = "counted"
    /\ UNCHANGED <<concurrent_tasks, notpre, normal_sources, atomic_sources,
                   ps_grid_spacing, allargs, pre_sent, normal, res,
                   calc_times>>

\* calc_times = zero_times(csm.get_sources())
PRE_ZeroTimes ==
    /\ pre_pc = "counted"
    /\ calc_times' = zero_times(get_sources(0))
    /\ pre_pc' = "stored"
    /\ UNCHANGED <<concurrent_tasks, notpre, normal_sources, atomic_sources,
                   ps_grid_spacing, allargs, pre_sent, normal, res,
                   before_after>>

PreWorkers == \E t \in 1..MaxSrc : PRE_TaskDone(t)

NextPre ==
    \/ PRE_Starmap
    \/ PreWorkers
    \/ PRE_Add
    \/ PRE_ReadCounters
    \/ PRE_ZeroTimes

SpecPre == InitPre /\ [][NextPre]_vars

\* run_preclassical up to the making of the tasks, for source models whose
\* groups hold sources of more than one magnitude-scaling relationship
InitBlocks ==
    /\ concurrent_tasks \in 0..MaxConcurrent
    /\ IdleCalc
    /\ IdleSmap
    /\ IdleSplit
    /\ IdleSignal
    /\ IdlePostRisk
    /\ normal_sources \in NormalSourcesByMsr
    /\ atomic_sources \in AtomicSources
    /\ ps_grid_spacing \in BOOLEAN
    /\ pre_pc = "start"
    /\ allargs = <<>>
    /\ pre_sent = {}
    /\ normal = <<>>
    /\ res = <<>>
    /\ before_after = <<>>
    /\ calc_times = <<>>

NextBlocks == PRE_Starmap

SpecBlocks == InitBlocks /\ [][NextBlocks]_vars

\* --------------------------------------- Part V: signal_task_complete
\* the names of the keyword arguments of a call: job_id, num_items and one
\* more of the arbitrary message parameters
KwargNames == {"job_id", "num_items", "extra"}

\* the keyword arguments of a call: any of the names, with their values
Kwargs == UNION {[S -> 1..MaxArg] : S \in SUBSET KwargNames}

InitSignal ==
    /\ concurrent_tasks = 0
    /\ IdleCalc
    /\ IdleSmap
    /\ IdleSplit
    /\ IdlePre
    /\ IdlePostRisk
    /\ sig_kwargs \in Kwargs
    /\ sig_pc = "called"
    /\ sig_conn = 0
    /\ sig_published = <<>>

\* msg = kwargs
\* (as a mutation: the job id is taken out of the message)
msg_NoJobId ==
    [k \in (DOMAIN sig_kwargs) \ {"job_id"} |-> sig_kwargs[k]]

msg == sig_kwargs

\* job_id = kwargs['job_id']: KeyError if the argument was not passed
SIG_JobId ==
    /\ sig_pc = "called"
    /\ sig_pc' = IF "job_id" \in DOMAIN sig_kwargs
                 THEN "routing" ELSE "KeyError"
    /\ UNCHANGED <<concurrent_tasks, notsig, sig_kwargs, sig_conn,
                   sig_published>>

\* exchange_and_conn_args(), the routing key, and
\* with kombu.BrokerConnection(**conn_args) as conn
SIG_Connect ==
    /\ sig_pc = "routing"
    /\ sig_conn' = sig_conn + 1
    /\ sig_pc' = "connected"
    /\ UNCHANGED <<concurrent_tasks, notsig, sig_kwargs, sig_published>>

\* with conn.Producer(exchange=exchange, routing_key=routing_key) as
\* producer: producer.publish(msg)
SIG_Publish ==
    /\ sig_pc = "connected"
    /\ sig_published' =
           Append(sig_published,
                  [routing_key |-> ROUTING_KEY_FMT(sig_kwargs["job_id"]),
                   body |-> msg])
    /\ sig_pc' = "returned"
    /\ UNCHANGED <<concurrent_tasks, notsig, sig_kwargs, sig_conn>>

NextSignal == SIG_JobId \/ SIG_Connect \/ SIG_Publish

SpecSignal == InitSignal /\ [][NextSignal]_vars

\* ------------------------------------------------- Part VI: post_risk
\* (as a mutation: the quotient is rounded down, to 1 at least)
blocksize_Floor ==
    LET q == num_curves \div
                 (IF concurrent_tasks = 0 THEN 1 ELSE concurrent_tasks)
    IN  IF q < 1 THEN 1 ELSE q

\* blocksize = int(numpy.ceil(num_curves / (oq.concurrent_tasks or 1)))
blocksize ==
    Ceil(num_curves, IF concurrent_tasks = 0 THEN 1 ELSE concurrent_tasks)

\* The loops over gb and oq.loss_names yield pr_n entries (k, r, l, losses),
\* written 1..pr_n in the order of the loops. Starmap runs the tasks in
\* process, each within its submit, or hands them to concurrent workers.
InitPostRisk ==
    /\ concurrent_tasks \in 0..MaxConcurrent
    /\ IdleCalc
    /\ IdleSmap
    /\ IdleSplit
    /\ IdlePre
    /\ IdleSignal
    /\ num_curves \in 1..MaxCurves
    /\ pr_n \in 0..num_curves
    /\ pr_j = 0
    /\ pr_pc = "loop"
    /\ krl_losses = <<>>
    /\ pr_inproc \in BOOLEAN
    /\ pr_args = <<>>
    /\ pr_recv = <<>>

\* the krl_losses of a task handed to a worker, were the list kept as it
\* was passed until the task runs
ArgsOfTask_ByReference(t) == krl_losses

\* the krl_losses that post_risk(builder, krl_losses, monitor) iterates
\* over in task t: a Task is created at submission time with its arguments
ArgsOfTask(t) == pr_args[t]

\* smap.submit((builder, krl_losses))
pr_submit ==
    /\ pr_args' = Append(pr_args, krl_losses)
    /\ pr_recv' = Append(pr_recv,
                         IF pr_inproc
                         THEN [ran |-> TRUE, entries |-> krl_losses]
                         ELSE [ran |-> FALSE, entries |-> <<>>])

\* krl_losses.append((k, r, l, df[lname])) and the test of the buffer
PR_Append ==
    /\ pr_pc = "loop"
    /\ pr_j < pr_n
    /\ krl_losses' = Append(krl_losses, pr_j + 1)
    /\ pr_j' = pr_j + 1
    /\ pr_pc' = IF Len(krl_losses') >= blocksize THEN "submit" ELSE "loop"
    /\ UNCHANGED <<concurrent_tasks, notpr, num_curves, pr_n, pr_inproc,
                   pr_args, pr_recv>>

\* the buffer is full: smap.submit((builder, krl_losses))
PR_Submit ==
    /\ pr_pc = "submit"
    /\ pr_submit
    /\ pr_pc' = "clear"
    /\ UNCHANGED <<concurrent_tasks, notpr, num_curves, pr_n, pr_j,
                   krl_losses, pr_inproc>>

\* krl_losses[:] = []: the list is emptied in place
PR_Clear ==
    /\ pr_pc = "clear"
    /\ krl_losses' = <<>>
    /\ pr_pc' = "loop"
    /\ UNCHANGED <<concurrent_tasks, notpr, num_curves, pr_n, pr_j,
                   pr_inproc, pr_args, pr_recv>>

\* the loops are over: if krl_losses: smap.submit((builder, krl_losses)),
\* and smap.reduce() is entered
PR_LoopEnd ==
    /\ pr_pc = "loop"
    /\ pr_j = pr_n
    /\ IF krl_losses /= <<>>
       THEN pr_submit
       ELSE UNCHANGED <<pr_args, pr_recv>>
    /\ pr_pc' = "reduce"
    /\ UNCHANGED <<concurrent_tasks, notpr, num_curves, pr_n, pr_j,
                   krl_losses, pr_inproc>>

\* a worker runs post_risk over the krl_losses of task t
PR_TaskRuns(t) ==
    /\ pr_pc \in {"loop", "submit", "clear", "reduce"}
    /\ t \in 1..Len(pr_recv)
    /\ ~pr_recv[t].ran
    /\ pr_recv' = [pr_recv EXCEPT
                       ![t] = [ran |-> TRUE, entries |-> ArgsOfTask(t)]]
    /\ UNCHANGED <<concurrent_tasks, notpr, num_curves, pr_n, pr_j, pr_pc,
                   krl_losses, pr_inproc, pr_args>>

PostRiskWorkers == \E t \in 1..MaxCurves : PR_TaskRuns(t)

\* smap.reduce() returns when every task has run
PR_Reduce ==
    /\ pr_pc = "reduce"
    /\ \A t \in 1..Len(pr_recv) : pr_recv[t].ran
    /\ pr_pc' = "returned"
    /\ UNCHANGED <<concurrent_tasks, notpr, num_curves, pr_n, pr_j,
                   krl_losses, pr_inproc, pr_args, pr_recv>>

NextPostRisk ==
    \/ PR_Append
    \/ PR_Submit
    \/ PR_Clear
    \/ PR_LoopEnd
    \/ PostRiskWorkers
    \/ PR_Reduce

SpecPostRisk == InitPostRisk /\ [][NextPostRisk]_vars

\* ------------------------------------------------------------------ claims
\* tasks passed to queue_next whose completion signal the callback has not
\* consumed yet
Unacked ==
    {b \in Range(submitted) : \A k \in 1..Len(consumed) : consumed[k].blk /= b}

RECURSIVE SumItems(_)
SumItems(msgs) ==
    IF msgs = <<>> THEN 0 ELSE Head(msgs).num_items + SumItems(Tail(msgs))

\* C1: with concurrent_tasks >= 1, the tasks submitted and not yet
\* acknowledged never number more than concurrent_tasks.
C1_ConcurrencyCeiling ==
    concurrent_tasks >= 1 => Cardinality(Unacked) <= concurrent_tasks

\* the ceiling is reached again after the callback has refilled a freed slot
C1_Witness ==
    /\ concurrent_tasks >= 2
    /\ consumed /= <<>>
    /\ Len(submitted) > concurrent_tasks
    /\ Cardinality(Unacked) = concurrent_tasks

\* C2: computed <= total in every reachable state, whatever signals the
\* control node consumes.
C2_ComputedLeTotal == computed <= total

\* C3: execute leaves its wait loop only in a state where computed = total.
C3_DoneOnlyAtTotal == pc = "done" => computed = total

\* C4: with concurrent_tasks >= 1, total the sum of the blocks' item counts
\* and every task signalling once, execute eventually returns; and once
\* computed has reached total it stops waiting.
C4_Terminates ==
    /\ (concurrent_tasks >= 1) => <>(pc = "done")
    /\ [](computed >= total => <>(pc = "done"))

\* a run with more blocks than slots has returned
C4_Witness ==
    /\ pc = "done"
    /\ concurrent_tasks >= 1
    /\ Len(blocks) > concurrent_tasks
    /\ Len(consumed) = Len(blocks)

\* C5: the k-th call of queue_next submits the k-th block of the generator:
\* no block is submitted twice and the order is the generator's.
C5_SubmittedOnceInOrder ==
    /\ \A k \in 1..Len(submitted) : submitted[k] = k
    /\ Len(submitted) = task_gen

\* blocks were submitted by the initial fill and by the callback
C5_Witness ==
    /\ concurrent_tasks >= 2
    /\ i = concurrent_tasks
    /\ Len(submitted) > concurrent_tasks

\* C6: when execute has returned the generator is exhausted and every
\* submitted task has been acknowledged.
C6_DoneMeansAllAcked ==
    pc = "done" =>
        /\ ~HasNext
        /\ Unacked = {}
        /\ running = {}
        /\ queue = <<>>

\* execute has returned from a run whose blocks outnumbered the slots
C6_Witness ==
    /\ pc = "done"
    /\ concurrent_tasks >= 1
    /\ Len(blocks) > concurrent_tasks
    /\ Len(submitted) = Len(blocks)

\* C7: when the signals consumed add up to more than total the control node
\* is in the SignalDeliveryAnomaly error state, never waiting or done.
C7_AnomalyRaised ==
    SumItems(consumed) > total => pc = "SignalDeliveryAnomaly"

\* C8: after a task failure the control node is never left blocked in the
\* wait loop with no task running and no signal to come.
C8_NotBlockedAfterFailure ==
    ~ /\ failed /= {}
      /\ pc = "wait"
      /\ LoopCond
      /\ running = {}
      /\ queue = <<>>

\* C9: when a task raises, reduce() never returns: execute ends with a
\* TaskFailure that carries the arguments of a task that was submitted and
\* its cause, and hands no accumulated result, partial or not, to the caller.
C9_FailureSurfaces ==
    /\ raised /= {} => cs_pc /= "returned"
    /\ (cs_pc = "raised" /\ error.type = "TaskFailure") =>
           /\ \E t \in raised : error.args = tasks[t]
           /\ error.cause \in Causes
           /\ result = NoResult

\* the second of several tasks failed after another had been merged
C9_Witness ==
    /\ cs_pc = "raised"
    /\ error.type = "TaskFailure"
    /\ Len(tasks) >= 2
    /\ error.args = tasks[2]
    /\ acc /= <<>>

\* C10: once a task has failed no further block is submitted.
C10_NoSubmitAfterFailure ==
    [][failed /= {} => submitted' = submitted]_vars

\* the items of a sequence of blocks, one block after the other
RECURSIVE Concat(_)
Concat(bs) == IF bs = <<>> THEN <<>> ELSE Head(bs) \o Concat(Tail(bs))

\* C11: the blocks of the splitter, concatenated in the order they are
\* yielded, are the input sequence: nothing dropped, duplicated or reordered.
C11_Lossless == bs_pc = "yielded" => Concat(bs_out) = bs_items

\* several blocks were yielded for an input with an item heavier than
\* max_weight
C11_Witness ==
    /\ bs_pc = "yielded"
    /\ Len(bs_out) >= 2
    /\ \E k \in 1..Len(bs_items) : bs_items[k].nsites > bs_max

\* C12: every block weighs at most max_weight, or is a single item that is
\* heavier than max_weight.
C12_BoundedWeight ==
    bs_pc = "yielded" =>
        \A n \in 1..Len(bs_out) :
            \/ Weight(bs_out[n]) <= bs_max
            \/ /\ Len(bs_out[n]) = 1
               /\ bs_out[n][1].nsites > bs_max

\* an oversized item of the same key as its neighbours is alone in its block
C12_Witness ==
    /\ bs_pc = "yielded"
    /\ \E n \in 2..(Len(bs_out) - 1) :
           /\ Len(bs_out[n]) = 1
           /\ Weight(bs_out[n]) > bs_max
           /\ bs_out[n - 1][1].grp_id = bs_out[n][1].grp_id
           /\ bs_out[n + 1][1].grp_id = bs_out[n][1].grp_id
           /\ Weight(bs_out[n - 1]) <= bs_max

\* C13: the items of a block all have the same key.
C13_SingleKey ==
    bs_pc = "yielded" =>
        \A n \in 1..Len(bs_out) :
            \A j, k \in 1..Len(bs_out[n]) :
                bs_out[n][j].grp_id = bs_out[n][k].grp_id

\* keys A, B, A, B with weights 2 and max_weight 4: no block of two items,
\* although two items would fit
C13_Witness ==
    /\ bs_pc = "yielded"
    /\ bs_max = 4
    /\ Len(bs_items) = 4
    /\ \A k \in 1..4 : bs_items[k].nsites = 2
    /\ bs_items[1].grp_id = bs_items[3].grp_id
    /\ bs_items[2].grp_id = bs_items[4].grp_id
    /\ bs_items[1].grp_id /= bs_items[2].grp_id
    /\ Len(bs_out) = 4

\* C14: with concurrent_tasks = 0 execute is rejected at once: it never
\* comes to wait for a signal, nor to return.
C14_ZeroRejected ==
    concurrent_tasks = 0 =>
        pc \in {"declare", "consume", "fill", "InvalidConfiguration"}

\* C15: when the total weight, and so maxweight, is 0, execute ends with
\* InvalidConfiguration, no block having been looped over and no task
\* submitted.
C15_NoTaskOnInvalidWeight ==
    Weight(rdata) = 0 =>
        /\ cs_pc \in {"split", "raised"}
        /\ cs_pc = "raised" => error.type = "InvalidConfiguration"
        /\ Ta = 0
        /\ tasks = <<>>

\* the run was rejected for a maxweight of 0
C15_Witness ==
    /\ cs_pc = "raised"
    /\ maxweight <= 0
    /\ error.type = "InvalidConfiguration"
    /\ tasks = <<>>


\* the tasks whose result reduce() has added to acc
MergedTasks ==
    {t \in 1..Len(tasks) :
        /\ t \notin sent
        /\ t \notin raised
        /\ \A k \in 1..Len(done) : done[k].task /= t}

\* the sum over the tasks of S (numbered up to n) of their values for key k
RECURSIVE SumKey(_, _, _)
SumKey(n, S, k) ==
    IF n = 0 THEN 0
    ELSE SumKey(n - 1, S, k) +
         (IF n \in S /\ k \in DOMAIN conditional_spectrum(tasks[n])
          THEN conditional_spectrum(tasks[n])[k] ELSE 0)

\* the mapping that holds for every key written by a task of S the sum of
\* the values the tasks of S have for it
SumOf(S) ==
    [k \in UNION {DOMAIN conditional_spectrum(tasks[t]) : t \in S} |->
        SumKey(Len(tasks), S, k)]

\* C17: when execute has returned the value of reduce(), every block has
\* been submitted, every submitted task has completed and been taken, and
\* the mapping returned is, key by key, the sum over all the submitted
\* tasks of their results.
C17_ReduceReturnsAll ==
    cs_pc = "returned" =>
        /\ Len(tasks) = Len(Blocks)
        /\ sent = {}
        /\ done = <<>>
        /\ raised = {}
        /\ result = SumOf(1..Len(tasks))

\* a run of three tasks, two of them of the same group, has returned
C17_Witness ==
    /\ cs_pc = "returned"
    /\ Len(tasks) = 3
    /\ tasks[1].grp_id = tasks[2].grp_id
    /\ tasks[3].grp_id /= tasks[1].grp_id
    /\ result[<<"_s", tasks[1].grp_id>>] = 2

\* C19: at every point of every interleaving of the completions, acc
\* holds for every key the sum of the results merged so far: no merge into
\* a key already present loses what was there.
C19_NoLostUpdate == acc = SumOf(MergedTasks)

\* two tasks of the same group have both been merged while a third one
\* submitted before them is still running
C19_Witness ==
    /\ cs_pc = "reduce"
    /\ Len(tasks) = 3
    /\ tasks[2].grp_id = tasks[3].grp_id
    /\ MergedTasks = {2, 3}
    /\ 1 \in sent
    /\ acc[<<"_s", tasks[2].grp_id>>] = 2

\* the result of preclassical task t
PartialResult(t) == preclassical(allargs[t])

\* C16: the results of the tasks of a run can be merged in any order:
\* merging two of them gives the same mapping either way round, and merging
\* three of them gives the same mapping however they are grouped.
C16_MergeOrderIndependent ==
    pre_pc /= "start" =>
        \A t, u, v \in 1..Len(allargs) :
            /\ Merge(PartialResult(t), PartialResult(u)) =
                   Merge(PartialResult(u), PartialResult(t))
            /\ Merge(Merge(PartialResult(t), PartialResult(u)),
                     PartialResult(v)) =
                   Merge(PartialResult(t),
                         Merge(PartialResult(u), PartialResult(v)))

\* what reduce() gives when the tasks up to n run one after the other
RECURSIVE Sequential(_)
Sequential(n) ==
    IF n = 0 THEN <<>> ELSE Merge(Sequential(n - 1), PartialResult(n))

\* C18: when reduce() has returned, the accumulator is the one that the
\* same tasks give when they run one after the other in the calling
\* process, whatever the order in which the tasks finished.
C18_SameAsSequential ==
    pre_pc \in {"added", "counted", "stored"} =>
        normal = Sequential(Len(allargs))

\* the sources that split_source makes of the sources of srcs
RECURSIVE NumParts(_)
NumParts(srcs) ==
    IF srcs = <<>> THEN 0
    ELSE (IF Head(srcs).splittable THEN MaxParts ELSE 1) +
         NumParts(Tail(srcs))

\* C20: reading res['before'] and res['after'] gives the sum of what has
\* been written under them, which is 0 when nothing has; and the row of
\* calc_times of every source starts from zeros(4): it holds the sums over
\* the parts of the source and nothing else.
C20_AbsentKeyIsIdentity ==
    /\ pre_pc \in {"counted", "stored"} =>
           before_after =
               <<Len(atomic_sources) + Len(normal_sources),
                 Len(atomic_sources) + NumParts(normal_sources)>>
    /\ pre_pc = "stored" =>
           /\ DOMAIN calc_times =
                  {basename(atomic_sources[k]) :
                       k \in 1..Len(atomic_sources)} \cup
                  {basename(normal_sources[k]) :
                       k \in 1..Len(normal_sources)}
           /\ \A b \in DOMAIN calc_times :
                  LET n == IF \E k \in 1..Len(normal_sources) :
                                  /\ basename(normal_sources[k]) = b
                                  /\ normal_sources[k].splittable
                           THEN MaxParts ELSE 1
                  IN  calc_times[b] = <<n, n, 0, n>>

\* a model without sources: no task has written 'before' or 'after'
C20_Witness ==
    /\ pre_pc = "stored"
    /\ normal_sources = <<>>
    /\ atomic_sources = <<>>
    /\ allargs = <<>>
    /\ res = <<>>
    /\ before_after = <<0, 0>>

\* C21: the queue of this job and the messages its callback has handled
\* hold only signals of this job, the queue of the other job holds only
\* signals of the other job, and computed counts the items of this job's
\* signals only.
C21_RoutedPerJob ==
    /\ \A k \in 1..Len(queue) : queue[k].job_id = job_id
    /\ \A k \in 1..Len(consumed) : consumed[k].job_id = job_id
    /\ \A k \in 1..Len(other_queue) : other_queue[k].job_id = other_job
    /\ LET Own(m) == m.job_id = job_id
       IN  computed = SumItems(SelectSeq(consumed, Own))

\* both jobs have signals published while this one waits, and this one
\* has handled one of its own
C21_Witness ==
    /\ pc = "wait"
    /\ other_queue /= <<>>
    /\ Len(consumed) >= 1
    /\ queue /= <<>>
    /\ running /= {}

\* the amounts of a sequence of signals
Amounts(msgs) == [k \in 1..Len(msgs) |-> msgs[k].num_items]

\* C22: computed is at every point the sum of the amounts of the signals
\* consumed so far; a signal is consumed from the head of the queue, the
\* signals that arrived after it staying behind it; and execute is done
\* exactly when the signal that brings computed to total has been
\* consumed: with the blocks [2, 1, 2] after the third signal.
C22_ComputedIsSumOfConsumed ==
    /\ [](computed = SumItems(consumed))
    /\ [](pc = "done" =>
             /\ computed = total
             /\ consumed /= <<>> =>
                    SumItems(SubSeq(consumed, 1, Len(consumed) - 1)) < total)
    /\ []((pc = "done" /\ blocks = <<2, 1, 2>>) =>
             Len(consumed) = 3 /\ computed = 5)
    /\ [][consumed' /= consumed =>
             /\ queue /= <<>>
             /\ consumed' = Append(consumed, Head(queue))
             /\ queue' = Tail(queue)
             /\ computed' = computed + Head(queue).num_items]_vars

\* the run of total 5 whose signals arrived with the amounts 2, 1, 2
C22_Witness ==
    /\ pc = "done"
    /\ total = 5
    /\ Amounts(consumed) = <<2, 1, 2>>
    /\ computed = 5

\* C25: while the initial tasks are queued, one task has been submitted
\* per iteration done; once the loop is over, min(concurrent_tasks, B)
\* iterations have been done, B being the number of blocks of the
\* generator, and execute waits for the signals or is done: it has not
\* failed.
C25_InitialFill ==
    /\ pc \in {"declare", "consume", "fill", "wait", "done"}
    /\ pc \in {"declare", "consume"} => submitted = <<>>
    /\ pc = "fill" =>
           Len(submitted) = i /\ i <= Min(concurrent_tasks, Len(blocks))
    /\ pc \in {"wait", "done"} =>
           /\ i = Min(concurrent_tasks, Len(blocks))
           /\ Len(submitted) >= i
           /\ \A k \in 1..i : submitted[k] = k

\* the generator was exhausted before concurrent_tasks tasks were
\* submitted, and execute waits
C25_Witness ==
    /\ pc = "wait"
    /\ Len(blocks) >= 2
    /\ concurrent_tasks > Len(blocks)
    /\ i = Len(blocks)
    /\ Len(submitted) = Len(blocks)
    /\ consumed = <<>>

\* C26: while execute waits, computed changes and a task is submitted only
\* in a step that consumes one signal; that step submits the next block of
\* the generator if there is one, and nothing otherwise.
C26_OneTaskPerSignal ==
    [][pc = "wait" =>
         /\ (computed' /= computed \/ submitted' /= submitted) =>
                consumed' /= consumed
         /\ consumed' /= consumed =>
                /\ Len(consumed') = Len(consumed) + 1
                /\ IF task_gen < Len(blocks)
                   THEN submitted' = Append(submitted, task_gen + 1)
                   ELSE submitted' = submitted]_vars

\* one signal made the callback submit the last block, and a later one
\* found the generator exhausted
C26_Witness ==
    /\ pc = "wait"
    /\ i >= 1
    /\ Len(submitted) = i + 1
    /\ Len(submitted) = Len(blocks)
    /\ Len(consumed) >= 2

\* C27: with concurrent_tasks >= 1, while execute waits with computed
\* below total, a submitted task is not acknowledged yet, and it is still
\* running or its signal is in the queue.
C27_NeverWaitsInVain ==
    (concurrent_tasks >= 1 /\ pc = "wait" /\ computed < total) =>
        /\ Unacked /= {}
        /\ running /= {} \/ queue /= <<>>

\* with one task at a time, execute waits after a first signal, the task
\* submitted in response having finished: only its signal is left
C27_Witness ==
    /\ pc = "wait"
    /\ concurrent_tasks = 1
    /\ computed < total
    /\ Len(consumed) >= 1
    /\ running = {}
    /\ queue /= <<>>

\* C28: whenever a task is in flight the queue has been declared and the
\* consumer registered, and the signal of every submitted task that has
\* finished is in the queue or has been consumed.
C28_QueueBeforeTasks ==
    /\ submitted /= <<>> => declared /\ consuming
    /\ \A b \in Range(submitted) :
           \/ b \in running
           \/ \E k \in 1..Len(queue) : queue[k].blk = b
           \/ \E k \in 1..Len(consumed) : consumed[k].blk = b

\* a task has signalled while the initial tasks are still being queued:
\* the signal is held by the queue
C28_Witness ==
    /\ pc = "fill"
    /\ declared
    /\ consuming
    /\ queue /= <<>>
    /\ running /= {}

\* C23: the tasks submitted so far are, in order, the first blocks of the
\* split of rdata at maxweight, and all of them once the loop is over,
\* whichever tasks have finished in the meantime and in whatever order.
C23_BlocksDetermined ==
    maxweight > 0 =>
        LET ref == block_splitter(rdata, maxweight)
        IN  /\ Len(tasks) <= Len(ref)
            /\ \A n \in 1..Len(tasks) : tasks[n] = TaskArgs(ref[n])
            /\ cs_pc \in {"reduce", "returned", "raised"} =>
                   Len(tasks) = Len(ref)

\* all the blocks have been submitted, the second task having finished
\* before the first
C23_Witness ==
    /\ cs_pc = "reduce"
    /\ Len(tasks) >= 2
    /\ done /= <<>>
    /\ done[1].task = 2
    /\ 1 \in sent

\* C24: a call publishes at most one message; when it returns it has
\* published one, whose body is the keyword arguments, job_id among them,
\* and whose routing key is the one of that job; a call without job_id ends
\* with KeyError, no connection having been opened and nothing published.
C24_OneMessageOrNone ==
    /\ Len(sig_published) <= 1
    /\ sig_conn <= 1
    /\ sig_pc = "returned" =>
           /\ Len(sig_published) = 1
           /\ sig_published[1].body = sig_kwargs
           /\ "job_id" \in DOMAIN sig_published[1].body
           /\ sig_published[1].routing_key =
                  <<"oq.job", sig_kwargs["job_id"], "tasks">>
    /\ sig_pc = "KeyError" => "job_id" \notin DOMAIN sig_kwargs
    /\ "job_id" \notin DOMAIN sig_kwargs =>
           /\ sig_pc \in {"called", "KeyError"}
           /\ sig_conn = 0
           /\ sig_published = <<>>

\* a call with other arguments but without job_id has failed
C24_Witness ==
    /\ sig_pc = "KeyError"
    /\ DOMAIN sig_kwargs = {"num_items", "extra"}
    /\ sig_conn = 0
    /\ sig_published = <<>>

\* the numbers of items of the blocks
Sizes(bs) == [n \in 1..Len(bs) |-> Len(bs[n])]

\* C29: the blocks are the input cut in order; where a block ends and
\* another begins, the first item of the next block would have brought the
\* weight of the block above max_weight, or has another key; 10 items of
\* weight 1 and one key with max_weight 3 give blocks of 3, 3, 3 and 1
\* items.
C29_GreedyInOrder ==
    bs_pc = "yielded" =>
        /\ Concat(bs_out) = bs_items
        /\ \A n \in 1..Len(bs_out) : bs_out[n] /= <<>>
        /\ \A n \in 1..(Len(bs_out) - 1) :
               LET blk == bs_out[n]
                   nxt == bs_out[n + 1][1]
               IN  \/ Weight(blk) + nxt.nsites > bs_max
                   \/ nxt.grp_id /= blk[Len(blk)].grp_id
        /\ (/\ Len(bs_items) = 10
            /\ bs_max = 3
            /\ \A k \in 1..10 :
                   /\ bs_items[k].nsites = 1
                   /\ bs_items[k].grp_id = bs_items[1].grp_id)
               => Sizes(bs_out) = <<3, 3, 3, 1>>

\* the 10 items of weight 1 have been split at max_weight 3
C29_Witness ==
    /\ bs_pc = "yielded"
    /\ Len(bs_items) = 10
    /\ bs_max = 3
    /\ \A k \in 1..10 : bs_items[k].nsites = 1
    /\ Sizes(bs_out) = <<3, 3, 3, 1>>

SliceRange(t) == tasks[t].start .. (tasks[t].stop - 1)

\* C31: the index ranges of the submitted slices are not empty, lie within
\* 0..totrups-1 and are pairwise disjoint; the ruptures of a range all have
\* the grp_id of the first rupture of its block, the one whose cmaker is
\* passed; and when the loop is over every index 0..totrups-1 is in exactly
\* one range.
C31_SlicesPartition ==
    /\ \A t \in 1..Len(tasks) :
           /\ SliceRange(t) /= {}
           /\ SliceRange(t) \subseteq 0..(Len(rdata) - 1)
           /\ tasks[t].grp_id = rdata[tasks[t].start + 1].grp_id
           /\ \A x \in SliceRange(t) :
                  \A k \in 1..Len(rdata) :
                      rdata[k].idx = x => rdata[k].grp_id = tasks[t].grp_id
    /\ \A a, b \in 1..Len(tasks) :
           a /= b => SliceRange(a) \cap SliceRange(b) = {}
    /\ cs_pc = "reduce" =>
           \A x \in 0..(Len(rdata) - 1) :
               Cardinality({t \in 1..Len(tasks) : x \in SliceRange(t)}) = 1

\* the loop is over for three ruptures of two groups: a slice of two
\* ruptures and a slice of one
C31_Witness ==
    /\ cs_pc = "reduce"
    /\ Len(rdata) = 3
    /\ Len(tasks) >= 2
    /\ \E t \in 1..Len(tasks) : Cardinality(SliceRange(t)) = 2
    /\ \E a, b \in 1..Len(tasks) : tasks[a].grp_id /= tasks[b].grp_id

\* the (grp_id, msr_name) group of a source, and the groups of the model
GroupOf(src) == <<src.grp_id, src.msr_name>>

Groups == {GroupOf(normal_sources[k]) : k \in 1..Len(normal_sources)}

\* the places <<t, j>> of the arguments of the tasks that hold source src
PlacesOf(src) ==
    {p \in (1..Len(allargs)) \X (1..MaxSrc) :
        /\ p[2] <= Len(allargs[p[1]])
        /\ allargs[p[1]][p[2]] = src}

\* C33: once the tasks are made, no task is without sources and none holds
\* sources of two (grp_id, msr_name) groups; without ps_grid_spacing every
\* non-atomic source is at exactly one place of exactly one task; with
\* ps_grid_spacing there is one task per group, holding all the sources of
\* the group; and no task holds an atomic source.
C33_BlocksOfOneGroup ==
    pre_pc /= "start" =>
        /\ \A t \in 1..Len(allargs) :
               /\ allargs[t] /= <<>>
               /\ \A j \in 1..Len(allargs[t]) :
                      /\ GroupOf(allargs[t][j]) = GroupOf(allargs[t][1])
                      /\ \E k \in 1..Len(normal_sources) :
                             allargs[t][j] = normal_sources[k]
                      /\ \A a \in 1..Len(atomic_sources) :
                             allargs[t][j] /= atomic_sources[a]
        /\ \A k \in 1..Len(normal_sources) :
               Cardinality(PlacesOf(normal_sources[k])) = 1
        /\ ps_grid_spacing =>
               /\ Len(allargs) = Cardinality(Groups)
               /\ \A t \in 1..Len(allargs) :
                      \A k \in 1..Len(normal_sources) :
                          GroupOf(normal_sources[k]) = GroupOf(allargs[t][1])
                              => PlacesOf(normal_sources[k]) \subseteq
                                     {t} \X (1..MaxSrc)

\* tasks made without ps_grid_spacing for a group of grp_id 1 that holds
\* two sources of one magnitude-scaling relationship, in one block, and a
\* source of another, and for a model with an atomic source
C33_Witness ==
    /\ pre_pc = "reduce"
    /\ ~ps_grid_spacing
    /\ atomic_sources /= <<>>
    /\ Len(normal_sources) = 3
    /\ \A k \in 1..3 : normal_sources[k].grp_id = 1
    /\ Cardinality(Groups) = 2
    /\ \E t \in 1..Len(allargs) : Len(allargs[t]) = 2

\* the sum, over the tasks of S numbered up to n, of the counter c
\* ('before' or 'after') of their results
RECURSIVE SumCounter(_, _, _)
SumCounter(c, S, n) ==
    IF n = 0 THEN 0
    ELSE SumCounter(c, S, n - 1) +
         (IF n \in S THEN PartialResult(n)[<<c, 0>>] ELSE 0)

\* the tasks that have finished
Finished == (1..Len(allargs)) \ pre_sent

\* C34: while reduce() runs, the counters of its accumulator are the sums
\* of the counters of the tasks finished so far, whichever they are; and
\* in res = atomic + normal each counter is the number of atomic sources
\* plus the sum of that counter over all the tasks.
C34_CountersAddUp ==
    /\ pre_pc /= "start" =>
           \A c \in {"before", "after"} :
               Get(normal, <<c, 0>>) = SumCounter(c, Finished, Len(allargs))
    /\ pre_pc \in {"added", "counted", "stored"} =>
           \A c \in {"before", "after"} :
               Get(res, <<c, 0>>) =
                   Len(atomic_sources) +
                   SumCounter(c, 1..Len(allargs), Len(allargs))

\* res has been made for a model with an atomic source and two groups,
\* whose tasks ran in a pool and split a source: more sources after than
\* before
C34_Witness ==
    /\ pre_pc = "added"
    /\ atomic_sources /= <<>>
    /\ distribute = "None"
    /\ Len(allargs) >= 2
    /\ Get(res, <<"after", 0>>) > Get(res, <<"before", 0>>)
    /\ Get(res, <<"before", 0>>) = Len(normal_sources) + 1

\* the entries passed to the tasks up to the n-th, one after the other
RECURSIVE Passed(_)
Passed(n) == IF n = 0 THEN <<>> ELSE Passed(n - 1) \o pr_args[n]

\* the entries the loops have yielded and no task has been passed yet: the
\* buffer, unless it has just been passed and is not emptied yet, or was
\* passed after the loops and is left as it is
Buffered == IF pr_pc \in {"loop", "submit"} THEN krl_losses ELSE <<>>

\* C32: the entries passed to the tasks so far, followed by those still in
\* the buffer, are the entries yielded so far, each once and in order; a
\* task is passed at least 1 and at most ceil(num_curves / (concurrent_tasks
\* or 1)) entries, and exactly that many unless it is the last one; when
\* the loops are over every entry has been passed, and a task that ran
\* received what it was passed.
C32_EveryEntryInOneTask ==
    LET size == Ceil(num_curves,
                     IF concurrent_tasks = 0 THEN 1 ELSE concurrent_tasks)
    IN  /\ Passed(Len(pr_args)) \o Buffered = [k \in 1..pr_j |-> k]
        /\ \A t \in 1..Len(pr_args) :
               /\ Len(pr_args[t]) >= 1
               /\ Len(pr_args[t]) <= size
               /\ t < Len(pr_args) => Len(pr_args[t]) = size
               /\ pr_recv[t].ran => pr_recv[t].entries = pr_args[t]
        /\ Len(krl_losses) <= size
        /\ pr_pc \in {"reduce", "returned"} =>
               Passed(Len(pr_args)) = [k \in 1..pr_n |-> k]

\* three entries in blocks of two: the last task has been passed one entry
C32_Witness ==
    /\ pr_pc = "returned"
    /\ pr_n = 3
    /\ blocksize = 2
    /\ Len(pr_args) = 2
    /\ Len(pr_args[2]) = 1

====
